---- MODULE Spec2Model ----
(***************************************************************************)
(* Gateway discovery of rust-igd: src/search.rs.                           *)
(*                                                                         *)
(* One search call (search_gateway or search_multi_gateways) runs against  *)
(* an environment made of                                                  *)
(*   - script : the sequence of events the socket delivers, in arrival     *)
(*              order (a datagram of some kind, or a receive error that    *)
(*              is not a timeout).  It is extended lazily: the first time  *)
(*              a receive goes past its end the environment chooses the    *)
(*              next event; a later call replays the same events.          *)
(*   - fault  : the system call (bind / set_read_timeout / send_to) whose  *)
(*              nth invocation the operating system fails, if any.         *)
(*   - clock  : time elapsed since the call started, saturating at         *)
(*              ClockCap; blocking receives and HTTP fetches advance it.   *)
(* A datagram is identified by its position in script; everything derived  *)
(* from it (addr, root_url, control urls, schema) carries that position.   *)
(***************************************************************************)
EXTENDS Integers, Sequences, FiniteSets, TLC

\* ---------------------------------------------------------------- bounds
MaxDatagrams == 3   \* events the environment delivers at most
MaxTimeout   == 2   \* largest options.timeout, in clock ticks
MaxFailNth   == 2   \* the injected fault hits the 1st .. MaxFailNth-th invocation
MaxPort      == 1   \* bind ports 0 (assigned by the OS) .. MaxPort (specific)
MaxReplayed  == 2   \* events delivered at most when a call is run twice

ClockCap == MaxTimeout + 1

Min(a, b) == IF a <= b THEN a ELSE b

\* ---------------------------------------------------------------- values
\* Option<Duration>
None    == [some |-> FALSE, d |-> 0]
Some(d) == [some |-> TRUE, d |-> d]

\* What one received datagram turns out to be, and the receive error event.
DatagramKinds == {"BadUtf8", "BadParse", "DescFail", "SchemaFail", "Good"}
EventKinds    == DatagramKinds \cup {"RecvErr"}

SysOps == {"bind", "set_read_timeout", "send_to"}
AllOps == SysOps \cup {"recv_from", "get_control_urls", "get_schemas"}

Faults == {[op |-> "none", nth |-> 0]}
            \cup [op : SysOps, nth : 1..MaxFailNth]

\* struct Gateway; every field holds the datagram it was resolved from.
Gateway(addr, root_url, control_url, control_schema_url, control_schema) ==
    [addr |-> addr, root_url |-> root_url, control_url |-> control_url,
     control_schema_url |-> control_schema_url, control_schema |-> control_schema]

NoGateway == Gateway(0, 0, 0, 0, 0)

\* The loop body's locals.
NoLocals == [addr |-> 0, root_url |-> 0, control_schema_url |-> 0, control_url |-> 0]

\* Result<Gateway, SearchError> and Result<Vec<Gateway>, SearchError>
NoResult    == [tag |-> "none", gateway |-> NoGateway, gateways |-> <<>>, err |-> "none"]
Ok(g)       == [tag |-> "Ok", gateway |-> g, gateways |-> <<>>, err |-> "none"]
OkVec(gs)   == [tag |-> "Ok", gateway |-> NoGateway, gateways |-> gs, err |-> "none"]
Err(e)      == [tag |-> "Err", gateway |-> NoGateway, gateways |-> <<>>, err |-> e]

NoRx == [kind |-> "none", idx |-> 0]

\* The record of what the environment answered (receive outcomes, fetch
\* completions), kept only when a second call is to meet the same answers.
NoTape  == [on |-> FALSE, log |-> <<>>]
NewTape == [on |-> TRUE, log |-> <<>>]

VARIABLES
    entry,        \* the function the caller invoked
    options,      \* SearchOptions: bind_addr (its port), timeout
    fault,        \* environment: the system call invocation that fails
    script,       \* environment: events delivered by the socket, in order
    cursor,       \* events of script this call has received
    clock,        \* time elapsed in this call
    begin,        \* search_multi_gateways: let begin = Instant::now()
    pc,           \* position in the code
    sockets,      \* sockets this call holds bound to options.bind_addr
    readTimeout,  \* read timeout armed on the socket in use
    rx,           \* outcome of the last recv_from
    loc,          \* locals of the loop body
    gateways,     \* search_multi_gateways: let mut gateways = vec![]
    result,       \* value returned by the function that returned last
    calls,        \* invocations of each operation in this call
    callNo,       \* 1 or 2: the call being run
    prev,         \* [entry, result] of call 1 once call 2 runs
    tape          \* environment: when on, the answers given to call 1

vars == <<entry, options, fault, script, cursor, clock, begin, pc, sockets,
          readTimeout, rx, loc, gateways, result, calls, callNo, prev, tape>>

env == <<entry, options, fault, callNo, prev>>


Entries == {"search_gateway", "search_multi_gateways"}

StartOf(e) == IF e = "search_gateway" THEN "sg_bind" ELSE "mg_bind"

NoCalls == [op \in AllOps |-> 0]

TypeOK ==
    /\ entry \in Entries
    /\ options \in [bind_addr : [port : 0..MaxPort],
                    timeout : {None} \cup {Some(d) : d \in 0..MaxTimeout}]
    /\ fault \in Faults
    /\ script \in Seq(EventKinds) /\ Len(script) <= MaxDatagrams
    /\ cursor \in 0..Len(script)
    /\ clock \in 0..ClockCap
    /\ begin \in 0..ClockCap
    /\ sockets \in 0..2
    /\ rx.kind \in {"none", "Ok", "WouldBlock", "TimedOut", "Other"}
    /\ result.tag \in {"none", "Ok", "Err"}
    /\ callNo \in 1..2

\* ------------------------------------------------------------ environment
\* This invocation of op is the one the operating system fails.
FaultHits(op) == fault.op = op /\ calls[op] + 1 = fault.nth

Bump(op) == [calls EXCEPT ![op] = @ + 1]

\* How many events the environment has in all.
EventLimit == IF tape.on THEN Min(MaxReplayed, MaxDatagrams) ELSE MaxDatagrams

\* The events the next successful wait on the socket can deliver: the next
\* one of the script, or a fresh one while the environment has any left.
NextEvents ==
    IF cursor < Len(script) THEN {script[cursor + 1]}
    ELSE IF Len(script) < EventLimit THEN EventKinds
    ELSE {}

\* Times at which something can be delivered to a receive started now with
\* read timeout rt: before the timeout elapses (any time, with none set).
ArrivalTimes(rt) ==
    IF ~rt.some THEN clock..ClockCap
    ELSE {t \in clock..ClockCap :
            t < clock + rt.d \/ (t = ClockCap /\ clock + rt.d > ClockCap)}

\* A receive that times out returns when the read timeout has elapsed.
TimeoutAt(rt) == Min(clock + rt.d, ClockCap)

\* The kinds under which a timed-out read is reported (platform dependent).
TimeoutKinds == {"WouldBlock", "TimedOut"}

\* socket.recv_from(&mut buf): every way the blocking receive can end.
RecvOutcomes ==
    {[kind |-> IF e = "RecvErr" THEN "Other" ELSE "Ok", ev |-> e, t |-> t] :
        e \in NextEvents, t \in ArrivalTimes(readTimeout)}
    \cup
    {[kind |-> k, ev |-> "none", t |-> TimeoutAt(readTimeout)] :
        k \in IF readTimeout.some THEN TimeoutKinds ELSE {}}

\* An HTTP fetch takes any amount of time.
FetchTimes == clock..ClockCap

FetchOutcomes == {[kind |-> "fetch", ev |-> "none", t |-> t] : t \in FetchTimes}

\* The answers of the environment so far in this call, plus one.
EnvStep ==
    calls["recv_from"] + calls["get_control_urls"] + calls["get_schemas"] + 1

\* The second call meets the answers the first one met, as far as they go
\* and fit; beyond them the environment is free.
Replayed(outcomes) ==
    IF callNo = 2 /\ EnvStep <= Len(tape.log) /\ tape.log[EnvStep] \in outcomes
    THEN {tape.log[EnvStep]}
    ELSE outcomes

Taped(o) ==
    tape' = IF tape.on /\ callNo = 1
            THEN [tape EXCEPT !.log = Append(@, o)]
            ELSE tape

\* ------------------------------------------------------- shared pieces
\* UdpSocket::bind(options.bind_addr)?  A specific port cannot be bound
\* while this call already holds a socket bound to it.
BindSucceeds ==
    /\ ~FaultHits("bind")
    /\ (options.bind_addr.port = 0 \/ sockets = 0)

\* socket.set_read_timeout(d)?  A zero duration is rejected.
SetReadTimeoutSucceeds(d) ==
    /\ ~FaultHits("set_read_timeout")
    /\ ~(d.some /\ d.d = 0)

SendSucceeds_Ignored == TRUE

\* socket.send_to(SEARCH_REQUEST, options.broadcast_address)?
SendSucceeds == ~FaultHits("send_to")

PropagatesRecvError_OnlyTimeouts(kind) == kind \in TimeoutKinds

\* let (read, _) = socket.recv_from(&mut buf)?;  any error kind returns.
PropagatesRecvError(kind) == kind # "Ok"

\* Decoding: str::from_utf8(..) and parsing::parse_search_result(text).
DecodeError(ev) ==
    IF ev = "BadUtf8" THEN "Utf8Error"
    ELSE IF ev = "BadParse" THEN "InvalidResponse"
    ELSE "none"

\* get_control_urls / get_schemas on the candidate of datagram kind ev.
ControlUrlsOk(ev) == ev \in {"SchemaFail", "Good"}
SchemasOk(ev)     == ev = "Good"

Continue_ReturnsErr(head) ==
    /\ pc' = "done"
    /\ result' = Err("HttpError")
    /\ sockets' = 0

\* Err(..) => continue
Continue(head) ==
    /\ pc' = head
    /\ UNCHANGED <<result, sockets>>

\* Fall through to the next statement.
Goto(label) ==
    /\ pc' = label
    /\ UNCHANGED <<result, sockets>>

\* return from search_gateway: its socket is dropped.
SgReturn(res) ==
    /\ result' = res
    /\ pc' = IF entry = "search_gateway" THEN "done" ELSE "mg_else"
    /\ sockets' = IF entry = "search_gateway" THEN 0 ELSE 1

MgReturn_KeepsSocket(res) ==
    /\ result' = res
    /\ pc' = "done"
    /\ UNCHANGED sockets

\* return from search_multi_gateways.
MgReturn(res) ==
    /\ result' = res
    /\ pc' = "done"
    /\ sockets' = 0

Push_Front(gs, g) == <<g>> \o gs

\* gateways.push(gateway)
Push(gs, g) == Append(gs, g)

BudgetExhausted_Strict(now) == now > begin + options.timeout.d

BudgetExhausted_Early(now) == now + 1 >= begin + options.timeout.d

\* if now >= begin + timeout { break; }
BudgetExhausted(now) == now >= begin + options.timeout.d

Remaining_Whole(now) == options.timeout.d

Remaining_Stale(now) ==
    IF readTimeout.some THEN readTimeout.d
    ELSE options.timeout.d - (now - begin)

\* timeout - (now - begin)
Remaining(now) == options.timeout.d - (now - begin)

BreakOnRecvError_Inverted(kind) == kind = "WouldBlock" \/ kind = "TimedOut"

\* if e.kind() != WouldBlock || e.kind() != TimedOut { break; }
BreakOnRecvError(kind) == kind # "WouldBlock" \/ kind # "TimedOut"

\* What a receive leaves in script, cursor, rx and clock.
Received(o) ==
    /\ calls' = Bump("recv_from")
    /\ clock' = o.t
    /\ script' = IF o.ev # "none" /\ cursor = Len(script)
                 THEN Append(script, o.ev) ELSE script
    /\ cursor' = IF o.ev # "none" THEN cursor + 1 ELSE cursor
    /\ rx' = [kind |-> o.kind, idx |-> IF o.kind = "Ok" THEN cursor + 1 ELSE 0]
    /\ Taped(o)

\* ------------------------------------------------------- search_gateway
SgBind ==
    /\ pc = "sg_bind"
    /\ calls' = Bump("bind")
    /\ IF BindSucceeds
       THEN /\ sockets' = sockets + 1
            /\ pc' = "sg_set_read_timeout"
            /\ UNCHANGED result
       ELSE SgReturn(Err("IoError"))
    /\ UNCHANGED <<env, tape, script, cursor, clock, begin, readTimeout, rx, loc, gateways>>

SgSetReadTimeout ==
    /\ pc = "sg_set_read_timeout"
    /\ calls' = Bump("set_read_timeout")
    /\ IF SetReadTimeoutSucceeds(options.timeout)
       THEN /\ readTimeout' = options.timeout
            /\ Goto("sg_send_to")
       ELSE /\ UNCHANGED readTimeout
            /\ SgReturn(Err("IoError"))
    /\ UNCHANGED <<env, tape, script, cursor, clock, begin, rx, loc, gateways>>

SgSend ==
    /\ pc = "sg_send_to"
    /\ calls' = Bump("send_to")
    /\ IF SendSucceeds
       THEN Goto("sg_recv_from")
       ELSE SgReturn(Err("IoError"))
    /\ UNCHANGED <<env, tape, script, cursor, clock, begin, readTimeout, rx, loc, gateways>>

\* recv_from(..)?, str::from_utf8(..)?, parsing::parse_search_result(text)?
SgRecv ==
    /\ pc = "sg_recv_from"
    /\ \E o \in Replayed(RecvOutcomes) :
        /\ Received(o)
        /\ IF PropagatesRecvError(o.kind)
           THEN /\ loc' = NoLocals
                /\ SgReturn(Err("IoError"))
           ELSE IF DecodeError(o.ev) # "none"
           THEN /\ loc' = NoLocals
                /\ SgReturn(Err(DecodeError(o.ev)))
           ELSE /\ loc' = [NoLocals EXCEPT !.addr = cursor + 1, !.root_url = cursor + 1]
                /\ Goto("sg_get_control_urls")
    /\ UNCHANGED <<env, begin, readTimeout, gateways>>

SgGetControlUrls_Unchecked ==
    /\ pc = "sg_get_control_urls"
    /\ calls' = Bump("get_control_urls")
    /\ \E o \in Replayed(FetchOutcomes) : clock' = o.t /\ Taped(o)
    /\ loc' = [loc EXCEPT !.control_schema_url = loc.addr,
                           !.control_url = loc.addr]
    /\ Goto("sg_get_schemas")
    /\ UNCHANGED <<env, script, cursor, begin, readTimeout, rx, gateways>>

SgGetControlUrls_Retries ==
    /\ pc = "sg_get_control_urls"
    /\ calls' = Bump("get_control_urls")
    /\ \E o \in Replayed(FetchOutcomes) : clock' = o.t /\ Taped(o)
    /\ IF ControlUrlsOk(script[loc.addr])
       THEN /\ loc' = [loc EXCEPT !.control_schema_url = loc.addr,
                                  !.control_url = loc.addr]
            /\ Goto("sg_get_schemas")
       ELSE /\ UNCHANGED loc
            /\ Goto("sg_get_control_urls")
    /\ UNCHANGED <<env, script, cursor, begin, readTimeout, rx, gateways>>

SgGetControlUrls ==
    /\ pc = "sg_get_control_urls"
    /\ calls' = Bump("get_control_urls")
    /\ \E o \in Replayed(FetchOutcomes) : clock' = o.t /\ Taped(o)
    /\ IF ControlUrlsOk(script[loc.addr])
       THEN /\ loc' = [loc EXCEPT !.control_schema_url = loc.addr,
                                  !.control_url = loc.addr]
            /\ Goto("sg_get_schemas")
       ELSE /\ loc' = NoLocals
            /\ Continue("sg_recv_from")
    /\ UNCHANGED <<env, script, cursor, begin, readTimeout, rx, gateways>>

SgGetSchemas ==
    /\ pc = "sg_get_schemas"
    /\ calls' = Bump("get_schemas")
    /\ \E o \in Replayed(FetchOutcomes) : clock' = o.t /\ Taped(o)
    /\ IF SchemasOk(script[loc.addr])
       THEN SgReturn(Ok(Gateway(loc.addr, loc.root_url, loc.control_url,
                                loc.control_schema_url, loc.addr)))
       ELSE Continue("sg_recv_from")
    /\ loc' = NoLocals
    /\ UNCHANGED <<env, script, cursor, begin, readTimeout, rx, gateways>>

\* ------------------------------------------------ search_multi_gateways
MgBind ==
    /\ pc = "mg_bind"
    /\ calls' = Bump("bind")
    /\ IF BindSucceeds
       THEN /\ sockets' = sockets + 1
            /\ pc' = "mg_send_to"
            /\ UNCHANGED result
       ELSE MgReturn(Err("IoError"))
    /\ UNCHANGED <<env, tape, script, cursor, clock, begin, readTimeout, rx, loc, gateways>>

\* send_to(..)?; let begin = Instant::now(); let mut gateways = vec![];
\* if let Some(timeout) = options.timeout { loop .. } else { search_gateway .. }
MgSend ==
    /\ pc = "mg_send_to"
    /\ calls' = Bump("send_to")
    /\ IF SendSucceeds
       THEN /\ begin' = clock
            /\ gateways' = <<>>
            /\ Goto(IF options.timeout.some THEN "mg_loop" ELSE "sg_bind")
       ELSE /\ UNCHANGED <<begin, gateways>>
            /\ MgReturn(Err("IoError"))
    /\ UNCHANGED <<env, tape, script, cursor, clock, readTimeout, rx, loc>>

\* let now = Instant::now(); if now >= begin + timeout { break; }
\* socket.set_read_timeout(Some(timeout - (now - begin)))?;
MgLoop ==
    /\ pc = "mg_loop"
    /\ IF BudgetExhausted(clock)
       THEN /\ MgReturn(OkVec(gateways))
            /\ UNCHANGED <<calls, readTimeout>>
       ELSE /\ calls' = Bump("set_read_timeout")
            /\ IF SetReadTimeoutSucceeds(Some(Remaining(clock)))
               THEN /\ readTimeout' = Some(Remaining(clock))
                    /\ Goto("mg_recv_from")
               ELSE /\ UNCHANGED readTimeout
                    /\ MgReturn(Err("IoError"))
    /\ UNCHANGED <<env, tape, script, cursor, clock, begin, rx, loc, gateways>>

\* match socket.recv_from(&mut buf) { Ok(..) => decode, Err(e) => .. }
MgRecv ==
    /\ pc = "mg_recv_from"
    /\ \E o \in Replayed(RecvOutcomes) :
        /\ Received(o)
        /\ IF o.kind = "Ok"
           THEN IF DecodeError(o.ev) # "none"
                THEN /\ loc' = NoLocals
                     /\ Goto("mg_loop")
                ELSE /\ loc' = [NoLocals EXCEPT !.addr = cursor + 1,
                                                !.root_url = cursor + 1]
                     /\ Goto("mg_get_control_urls")
           ELSE /\ loc' = NoLocals
                /\ IF BreakOnRecvError(o.kind)
                   THEN MgReturn(OkVec(gateways))
                   ELSE Goto("mg_loop")
    /\ UNCHANGED <<env, begin, readTimeout, gateways>>

MgGetControlUrls ==
    /\ pc = "mg_get_control_urls"
    /\ calls' = Bump("get_control_urls")
    /\ \E o \in Replayed(FetchOutcomes) : clock' = o.t /\ Taped(o)
    /\ IF ControlUrlsOk(script[loc.addr])
       THEN /\ loc' = [loc EXCEPT !.control_schema_url = loc.addr,
                                  !.control_url = loc.addr]
            /\ Goto("mg_get_schemas")
       ELSE /\ loc' = NoLocals
            /\ Continue("mg_loop")
    /\ UNCHANGED <<env, script, cursor, begin, readTimeout, rx, gateways>>

MgGetSchemas ==
    /\ pc = "mg_get_schemas"
    /\ calls' = Bump("get_schemas")
    /\ \E o \in Replayed(FetchOutcomes) : clock' = o.t /\ Taped(o)
    /\ IF SchemasOk(script[loc.addr])
       THEN /\ gateways' = Push(gateways,
                                Gateway(loc.addr, loc.root_url, loc.control_url,
                                        loc.control_schema_url, loc.addr))
            /\ Goto("mg_loop")
       ELSE /\ UNCHANGED gateways
            /\ Continue("mg_loop")
    /\ loc' = NoLocals
    /\ UNCHANGED <<env, script, cursor, begin, readTimeout, rx>>

\* let gateway = search_gateway(options)?; gateways.push(gateway); Ok(gateways)
MgElse ==
    /\ pc = "mg_else"
    /\ IF result.tag = "Err"
       THEN /\ UNCHANGED gateways
            /\ MgReturn(Err(result.err))
       ELSE /\ gateways' = Push(gateways, result.gateway)
            /\ MgReturn(OkVec(Push(gateways, result.gateway)))
    /\ UNCHANGED <<env, tape, script, cursor, clock, begin, readTimeout, rx, loc, calls>>

\* ------------------------------------------------------- specifications
InitCall(e) ==
    /\ entry = e
    /\ cursor = 0
    /\ clock = 0
    /\ begin = 0
    /\ pc = StartOf(e)
    /\ sockets = 0
    /\ readTimeout = None
    /\ rx = NoRx
    /\ loc = NoLocals
    /\ gateways = <<>>
    /\ result = NoResult
    /\ calls = NoCalls

Init ==
    /\ \E e \in Entries : InitCall(e)
    /\ options \in [bind_addr : [port : 0..MaxPort],
                    timeout : {None} \cup {Some(d) : d \in 0..MaxTimeout}]
    /\ fault \in Faults
    /\ script = <<>>
    /\ callNo = 1
    /\ prev = [entry |-> "none", result |-> NoResult]
    /\ tape = NoTape

SearchGateway ==
    \/ SgBind
    \/ SgSetReadTimeout
    \/ SgSend
    \/ SgRecv
    \/ SgGetControlUrls
    \/ SgGetSchemas

Next ==
    \/ SearchGateway
    \/ MgBind
    \/ MgSend
    \/ MgLoop
    \/ MgRecv
    \/ MgGetControlUrls
    \/ MgGetSchemas
    \/ MgElse

Spec == Init /\ [][Next]_vars


\* A second call against the same environment: same options, same fault,
\* same events from the start; every resource of the first call is gone.
NextCall(e) ==
    /\ pc = "done"
    /\ callNo = 1
    /\ callNo' = 2
    /\ prev' = [entry |-> entry, result |-> result]
    /\ entry' = e
    /\ cursor' = 0
    /\ clock' = 0
    /\ begin' = 0
    /\ pc' = StartOf(e)
    /\ readTimeout' = None
    /\ rx' = NoRx
    /\ loc' = NoLocals
    /\ gateways' = <<>>
    /\ result' = NoResult
    /\ calls' = NoCalls
    /\ UNCHANGED <<options, fault, script, sockets, tape>>

ThenMulti == NextCall("search_multi_gateways")

\* search_gateway, then search_multi_gateways, both with no timeout, in an
\* environment whose failing system call (if any) fails from the first
\* invocation.
InitPair ==
    /\ InitCall("search_gateway")
    /\ options \in [bind_addr : [port : 0..MaxPort], timeout : {None}]
    /\ fault \in {f \in Faults : f.nth <= 1}
    /\ script = <<>>
    /\ callNo = 1
    /\ prev = [entry |-> "none", result |-> NoResult]
    /\ tape = NoTape

NextPair ==
    \/ SearchGateway
    \/ MgBind
    \/ MgSend
    \/ MgElse
    \/ ThenMulti

SpecPair == InitPair /\ [][NextPair]_vars

\* ------------------------------------------------------------ vocabulary
Single     == entry = "search_gateway"
MultiTimed == entry = "search_multi_gateways" /\ options.timeout.some
Returned   == pc = "done"

Malformed    == {"BadUtf8", "BadParse"}
Unresolvable == {"DescFail", "SchemaFail"}

\* The descriptor resolved from the i-th event of the script.
GatewayOf(i) == Gateway(i, i, i, i, i)

\* The descriptors of the resolving datagrams among the first n received,
\* in arrival order.
ResolvedAmong(n) ==
    LET idx == SelectSeq([i \in 1..n |-> i], LAMBDA i : script[i] = "Good")
    IN  [k \in 1..Len(idx) |-> GatewayOf(idx[k])]

\* The injected fault has struck in this call.
EnvFaultHit == fault.op # "none" /\ calls[fault.op] >= fault.nth

\* Where a return from search_gateway lands.
SgReturnsTo == IF entry = "search_gateway" THEN "done" ELSE "mg_else"

LoopHeadOf(label) ==
    IF label \in {"sg_recv_from", "sg_get_control_urls", "sg_get_schemas"}
    THEN "sg_recv_from" ELSE "mg_loop"


\* ================================================================ claims

\* C1 (as claimed): search_gateway, having received only datagrams (no
\* receive error, no timeout, no failed system call), returns only at the
\* first datagram that decodes and resolves, with Ok of the Gateway built
\* from exactly that datagram: malformed or unresolvable datagrams before
\* it are skipped and never turn into an error.
C1_FirstResolvingDatagramWins ==
    (/\ Single /\ Returned
     /\ cursor >= 1
     /\ rx.kind = "Ok"
     /\ \A i \in 1..cursor : script[i] \in DatagramKinds)
    => /\ script[cursor] = "Good"
       /\ \A i \in 1..(cursor - 1) : script[i] # "Good"
       /\ result = Ok(GatewayOf(cursor))

\* C2 (as claimed): in both drivers the receive of a datagram that fails to
\* decode (invalid UTF-8, or parse_search_result fails) returns nothing to
\* the caller and leads back to the loop head with the accumulated gateways
\* and the socket unchanged.
C2_MalformedDatagramIsDropped ==
    [][(/\ pc \in {"sg_recv_from", "mg_recv_from"}
        /\ rx'.kind = "Ok"
        /\ script'[cursor'] \in Malformed)
       => /\ result' = NoResult
          /\ pc' = LoopHeadOf(pc)
          /\ gateways' = gateways
          /\ sockets' = sockets]_vars

\* C3: in both drivers, when the description fetch or the schema fetch of a
\* decoded candidate fails, nothing is returned or appended for it, no error
\* is surfaced, and the driver goes back to the head of its loop for the
\* next datagram.
C3_FetchFailureSkipsCandidate ==
    [][(\/ /\ pc \in {"sg_get_control_urls", "mg_get_control_urls"}
           /\ script[loc.addr] = "DescFail"
        \/ /\ pc \in {"sg_get_schemas", "mg_get_schemas"}
           /\ script[loc.addr] = "SchemaFail")
       => /\ result' = NoResult
          /\ gateways' = gateways
          /\ pc' = LoopHeadOf(pc)]_vars

\* search_gateway skipped a candidate whose description fetch failed and one
\* whose schema fetch failed, and returned the gateway of the third datagram.
C3_Witness ==
    /\ Single /\ Returned
    /\ cursor = 3
    /\ script[1] = "DescFail"
    /\ script[2] = "SchemaFail"
    /\ result = Ok(GatewayOf(3))

\* C4: the list search_multi_gateways (with a timeout) returns holds exactly
\* the descriptors of the received datagrams that decoded and resolved, one
\* each, in the arrival order of their datagrams.
C4_ListIsResolvedInArrivalOrder ==
    (MultiTimed /\ Returned /\ result.tag = "Ok")
    => result.gateways = ResolvedAmong(cursor)

\* Two resolving datagrams with a malformed one between them: both are
\* returned, in order.
C4_Witness ==
    /\ MultiTimed /\ Returned
    /\ cursor = 3
    /\ script[2] \in Malformed
    /\ result = OkVec(<<GatewayOf(1), GatewayOf(3)>>)

\* C5 (as claimed): search_multi_gateways with no timeout, run in the
\* environment of a search_gateway call with the same options, returns
\* Ok([g]) exactly when that call returned Ok(g) and Err exactly when it
\* returned Err.
C5_NoTimeoutMultiEqualsSingle ==
    (callNo = 2 /\ Returned)
    => /\ prev.result.tag = "Ok" => result = OkVec(<<prev.result.gateway>>)
       /\ prev.result.tag = "Err" => result.tag = "Err"

\* C6 (as claimed): search_multi_gateways with a timeout returns Ok([])
\* whenever bind and send succeeded and no candidate resolved; with
\* timeout 0 it does so without any receive.
C6_EmptyListWheneverBindAndSendSucceed ==
    (/\ MultiTimed /\ Returned
     /\ ~(fault.op \in {"bind", "send_to"} /\ EnvFaultHit)
     /\ \A i \in 1..cursor : script[i] # "Good")
    => /\ result = OkVec(<<>>)
       /\ options.timeout.d = 0 => calls["recv_from"] = 0

\* C6 (amended): search_multi_gateways with a timeout returns Ok([]) whenever
\* bind, send and every configuration of the read timeout succeeded and no
\* candidate resolved; with timeout 0 it does so without any receive.
C6_EmptyListNotError ==
    (/\ MultiTimed /\ Returned
     /\ ~EnvFaultHit
     /\ \A i \in 1..cursor : script[i] # "Good")
    => /\ result = OkVec(<<>>)
       /\ options.timeout.d = 0 => calls["recv_from"] = 0

\* A malformed datagram, then silence until the budget ran out: Ok([]).
C6_Witness ==
    /\ MultiTimed /\ Returned
    /\ ~EnvFaultHit
    /\ cursor >= 1
    /\ \A i \in 1..cursor : script[i] \in Malformed \cup Unresolvable
    /\ rx.kind \in TimeoutKinds
    /\ result = OkVec(<<>>)

\* C7 (as claimed): a receive that fails with a timed-out or would-block
\* kind surfaces no error and does not end the search: the driver goes back
\* to the head of its loop (search_gateway to receive again,
\* search_multi_gateways to recompute the remaining budget).
C7_TimeoutNeverSurfaces ==
    [][(/\ pc \in {"sg_recv_from", "mg_recv_from"}
        /\ rx'.kind \in TimeoutKinds)
       => /\ result'.tag # "Err"
          /\ pc' = LoopHeadOf(pc)]_vars

\* C8: in search_gateway a receive failure that is neither timed-out nor
\* would-block returns Err at once, and nothing is received or fetched after
\* a return; whatever search_gateway returns is Err or Ok with a Gateway
\* resolved from a datagram it received.
C8_FatalReceiveAndNoEmptyReturn ==
    /\ [][(pc = "sg_recv_from" /\ rx'.kind = "Other")
          => (result'.tag = "Err" /\ pc' = SgReturnsTo)]_vars
    /\ [][(pc \in {"done", "mg_else"}) => (calls' = calls)]_vars
    /\ []((pc = SgReturnsTo /\ ~MultiTimed)
          => \/ result.tag = "Err"
             \/ /\ result.tag = "Ok"
                /\ \E i \in 1..cursor : /\ script[i] = "Good"
                                        /\ result.gateway = GatewayOf(i))

\* search_gateway skipped a datagram, then hit a fatal receive error.
C8_Witness ==
    /\ Single /\ Returned
    /\ cursor >= 2
    /\ script[cursor] = "RecvErr"
    /\ rx.kind = "Other"
    /\ result = Err("IoError")

\* C9: in search_multi_gateways with a timeout, a receive failure that is
\* neither timed-out nor would-block ends the call with Ok of exactly the
\* gateways collected so far, which are the resolved datagrams received
\* before it, in order.
C9_FatalReceiveReturnsCollected ==
    [][(pc = "mg_recv_from" /\ rx'.kind = "Other")
       => /\ pc' = "done"
          /\ gateways' = gateways
          /\ result' = OkVec(gateways)
          /\ gateways = ResolvedAmong(cursor)]_vars

\* A gateway was collected, then the receive failed fatally.
C9_Witness ==
    /\ MultiTimed /\ Returned
    /\ rx.kind = "Other"
    /\ cursor >= 2
    /\ result = OkVec(<<GatewayOf(1)>>)

\* The system call about to be made fails: the environment fails it, the
\* specific port is already bound by this call, or the duration is zero.
SetupFailsNow(op) ==
    \/ /\ op = "bind"
       /\ pc \in {"sg_bind", "mg_bind"}
       /\ (FaultHits("bind") \/ (options.bind_addr.port # 0 /\ sockets > 0))
    \/ /\ op = "set_read_timeout"
       /\ pc = "sg_set_read_timeout"
       /\ (FaultHits("set_read_timeout") \/ options.timeout = Some(0))
    \/ /\ op = "set_read_timeout"
       /\ pc = "mg_loop"
       /\ clock < begin + options.timeout.d
       /\ FaultHits("set_read_timeout")
    \/ /\ op = "send_to"
       /\ pc \in {"sg_send_to", "mg_send_to"}
       /\ FaultHits("send_to")

\* C10: in both drivers a failing bind, read-timeout configuration or send
\* makes the function return Err in that very step, with the failed call
\* made once; the caller of an inner search_gateway passes the Err on; and
\* nothing is received or fetched afterwards.
C10_SetupFailureIsFatal ==
    /\ [][\A op \in SysOps :
            SetupFailsNow(op)
            => /\ result'.tag = "Err"
               /\ pc' = (IF pc \in {"sg_bind", "sg_set_read_timeout", "sg_send_to"}
                         THEN SgReturnsTo ELSE "done")
               /\ calls' = Bump(op)]_vars
    /\ [][(pc = "mg_else" /\ result.tag = "Err")
          => (pc' = "done" /\ result'.tag = "Err")]_vars
    /\ [][(pc \in {"done", "mg_else"}) => (calls' = calls)]_vars

\* The second configuration of the read timeout in the accumulation loop
\* failed, after a gateway had been collected.
C10_Witness ==
    /\ MultiTimed /\ Returned
    /\ fault = [op |-> "set_read_timeout", nth |-> 2]
    /\ calls["set_read_timeout"] = 2
    /\ Len(gateways) = 1
    /\ result = Err("IoError")


\* Every step of a call ends: a receive returns (by its read timeout at the
\* latest, when one is armed), a fetch returns, a system call returns.
\* The calls of search_multi_gateways with a timeout (they bind once, so the
\* port makes no difference: the one assigned by the OS is taken).
InitTimed ==
    /\ Init
    /\ entry = "search_multi_gateways"
    /\ options.timeout.some
    /\ options.bind_addr.port = 0

NextTimed ==
    \/ MgBind
    \/ MgSend
    \/ MgLoop
    \/ MgRecv
    \/ MgGetControlUrls
    \/ MgGetSchemas

SpecLive == InitTimed /\ [][NextTimed]_vars /\ WF_vars(NextTimed)

Deadline == begin + options.timeout.d

FetchLabels == {"sg_get_control_urls", "sg_get_schemas",
                "mg_get_control_urls", "mg_get_schemas"}

\* C11 (as claimed): search_multi_gateways with timeout T has returned no
\* later than T after the broadcast.
C11_ReturnsWithinBudget ==
    (MultiTimed /\ Returned) => clock <= Deadline

\* C11 (amended): in search_multi_gateways with timeout T no receive is
\* started once elapsed time has reached T, no receive ends later than
\* begin + T, time past begin + T elapses only inside the HTTP fetches of a
\* candidate received before it, and the call eventually returns.
C11_BoundedByBudgetAndFetches ==
    /\ []((MultiTimed /\ pc = "mg_recv_from") => clock < Deadline)
    /\ [][(MultiTimed /\ pc = "mg_recv_from") => (clock' <= Deadline)]_vars
    /\ [][(MultiTimed /\ clock' > clock /\ clock' > Deadline)
          => (pc \in FetchLabels)]_vars
    /\ (MultiTimed ~> Returned)

\* The fetches of the last candidate ran past the budget; its gateway is
\* returned, later than T.
C11_Witness ==
    /\ MultiTimed /\ Returned
    /\ clock > Deadline
    /\ calls["recv_from"] >= 2
    /\ result.tag = "Ok"
    /\ Len(result.gateways) >= 1


\* C12 (as claimed): options.timeout bounds the whole search_gateway call:
\* with timeout Some(T) nothing of the call lasts beyond T after its start,
\* so a receive started before T has elapsed ends no later than T, however
\* many datagrams with failing candidates arrived before it.
C12_TimeoutBoundsWholeCall ==
    [][(/\ Single
        /\ options.timeout.some
        /\ pc = "sg_recv_from"
        /\ clock < options.timeout.d)
       => (clock' <= options.timeout.d)]_vars


\* The same function called twice with the same options (a specific port)
\* against the same responders: the second call meets the events, the
\* timing and the faults the first one met.
Again == NextCall(entry)

InitTwice ==
    /\ \E e \in Entries : InitCall(e)
    /\ options \in [bind_addr : [port : {MaxPort}],
                    timeout : {None} \cup {Some(d) : d \in 0..MaxTimeout}]
    /\ fault \in Faults
    /\ script = <<>>
    /\ callNo = 1
    /\ prev = [entry |-> "none", result |-> NoResult]
    /\ tape = NewTape

NextTwice ==
    \/ Next
    \/ Again

SpecTwice == InitTwice /\ [][NextTwice]_vars

RecvLabels    == {"sg_recv_from", "mg_recv_from"}
DescLabels    == {"sg_get_control_urls", "mg_get_control_urls"}
SchemaLabels  == {"sg_get_schemas", "mg_get_schemas"}

\* This step builds a Gateway: search_gateway returns Ok, or the list of
\* search_multi_gateways grows in its loop.
BuildsGateway ==
    \/ pc # "mg_else" /\ Len(gateways') > Len(gateways)
    \/ pc \notin {"mg_else", "done"} /\ result.tag = "none" /\ result'.tag = "Ok"
                                      /\ result'.gateway # NoGateway

\* C14: a Gateway is built only by the step that ends a successful schema
\* fetch, which follows a successful description fetch, which follows the
\* successful decoding, all of the datagram received last; the schema fetch
\* is never made for a candidate whose description fetch failed; and every
\* field of the Gateway comes from that datagram's resolution.
C14_GatewayOnlyAfterFullResolution ==
    /\ [][BuildsGateway
          => /\ pc \in SchemaLabels
             /\ script[cursor] = "Good"
             /\ loc = [addr |-> cursor, root_url |-> cursor,
                       control_schema_url |-> cursor, control_url |-> cursor]
             /\ (pc = "sg_get_schemas" => result'.gateway = GatewayOf(cursor))
             /\ (pc = "mg_get_schemas"
                   => gateways' = Append(gateways, GatewayOf(cursor)))]_vars
    /\ [][(pc' \in SchemaLabels /\ pc' # pc)
          => /\ pc \in DescLabels
             /\ script[cursor] \in {"SchemaFail", "Good"}
             /\ loc.addr = cursor
             /\ loc'.control_schema_url = cursor]_vars
    /\ [][(pc' \in DescLabels /\ pc' # pc)
          => /\ pc \in RecvLabels
             /\ rx'.kind = "Ok"
             /\ script'[cursor'] \in {"DescFail", "SchemaFail", "Good"}
             /\ loc'.addr = cursor']_vars
    /\ [][(calls'["get_schemas"] > calls["get_schemas"])
          => (pc \in SchemaLabels /\ script[cursor] # "DescFail")]_vars

\* search_multi_gateways dropped a candidate whose description fetch failed
\* and built the Gateway of the next datagram.
C14_Witness ==
    /\ MultiTimed /\ Returned
    /\ cursor >= 2
    /\ script[1] = "DescFail"
    /\ script[2] = "Good"
    /\ calls["get_schemas"] = 1
    /\ result.tag = "Ok"
    /\ result.gateways = <<GatewayOf(2)>>


\* C15 (as claimed): a search call binds one socket on bind_addr and sends
\* one discovery request: never a second bind, never a second send, and
\* exactly one of each in a call that returns Ok.
C15_OneSocketOneRequest ==
    /\ calls["bind"] <= 1
    /\ calls["send_to"] <= 1
    /\ sockets <= 1
    /\ (Returned /\ result.tag = "Ok")
          => (calls["bind"] = 1 /\ calls["send_to"] = 1)

\* The received datagrams that decoded, and those whose description fetch
\* succeeded.
Decoded     == {i \in 1..cursor : script[i] \in {"DescFail", "SchemaFail", "Good"}}
DescFetched == {i \in 1..cursor : script[i] \in {"SchemaFail", "Good"}}

\* C16: no fetch is retried: at most one description fetch is issued per
\* decoded datagram and at most one schema fetch per candidate whose
\* description fetch succeeded, and the step after a fetch, failed or not,
\* is never that fetch again.
C16_NoFetchRetried ==
    /\ [](/\ calls["get_control_urls"] <= Cardinality(Decoded)
          /\ calls["get_schemas"] <= Cardinality(DescFetched)
          /\ calls["get_schemas"] <= calls["get_control_urls"])
    /\ [][(pc \in FetchLabels) => (pc' # pc)]_vars

\* search_gateway is back at its receive after one failed description fetch
\* and one failed schema fetch: three fetches for two datagrams.
C16_Witness ==
    /\ Single
    /\ pc = "sg_recv_from"
    /\ cursor = 2
    /\ script[1] = "SchemaFail"
    /\ script[2] = "DescFail"
    /\ calls["get_control_urls"] = 2
    /\ calls["get_schemas"] = 1


\* The accumulation loop of search_multi_gateways has been entered: bind and
\* send succeeded.
LoopEntered ==
    /\ MultiTimed
    /\ calls["send_to"] = 1
    /\ ~(fault.op \in {"bind", "send_to"} /\ EnvFaultHit)

\* C17: in search_multi_gateways with timeout T every receive runs under a
\* read timeout armed in that iteration to T - elapsed, a value above zero
\* and at most T; and once elapsed >= T the head of the loop returns with no
\* further system call.
C17_ReadTimeoutIsRemainingBudget ==
    /\ [](pc = "mg_recv_from"
            => /\ readTimeout = Some(options.timeout.d - (clock - begin))
               /\ readTimeout.d > 0
               /\ readTimeout.d <= options.timeout.d)
    /\ [][(pc = "mg_loop" /\ clock - begin >= options.timeout.d)
            => (pc' = "done" /\ calls' = calls)]_vars
    /\ [][(MultiTimed /\ calls'["recv_from"] # calls["recv_from"])
            => (calls["set_read_timeout"] = calls["recv_from"] + 1)]_vars

\* A later iteration is about to receive with less than the whole budget.
C17_Witness ==
    /\ pc = "mg_recv_from"
    /\ calls["recv_from"] >= 1
    /\ clock > begin
    /\ readTimeout = Some(Deadline - clock)
    /\ readTimeout.d < options.timeout.d

\* C18 (as claimed): once the loop of search_multi_gateways is entered, the
\* call returns Ok with every gateway accumulated, and only after the budget
\* is exhausted or a receive failed fatally; it never returns Err.
C18_NeverErrAfterEnteringLoop ==
    (LoopEntered /\ Returned)
    => /\ result = OkVec(gateways)
       /\ (clock >= Deadline \/ rx.kind = "Other")

\* C18 (amended): once the loop is entered, the call returns Err only when
\* configuring the read timeout failed, dropping what it had accumulated;
\* otherwise it returns Ok with every gateway resolved from the datagrams
\* received, in order, and only after the budget is exhausted or a receive
\* failed fatally. While the loop runs the list only grows at its end.
C18_OkUnlessReadTimeoutSetupFails ==
    /\ []((LoopEntered /\ Returned)
            => IF fault.op = "set_read_timeout" /\ EnvFaultHit
               THEN result = Err("IoError")
               ELSE /\ result = OkVec(gateways)
                    /\ gateways = ResolvedAmong(cursor)
                    /\ (clock >= Deadline \/ rx.kind = "Other"))
    /\ [][MultiTimed
            => /\ Len(gateways') >= Len(gateways)
               /\ SubSeq(gateways', 1, Len(gateways)) = gateways]_vars

\* The second configuration of the read timeout failed after a gateway had
\* been accumulated: the call returned Err.
C18_Witness ==
    /\ LoopEntered /\ Returned
    /\ fault.op = "set_read_timeout" /\ EnvFaultHit
    /\ Len(gateways) >= 1
    /\ result = Err("IoError")

====
